---- MODULE Spec2Model ----
(***************************************************************************)
(* Model of pyls/plugins/pylint_lint.py: PylintLinter.lint and the         *)
(* class-level cache PylintLinter.last_diags.                              *)
(*                                                                         *)
(* A path and sys.platform are sequences of one-character strings, so that *)
(* str.replace and str.startswith are computed character by character.     *)
(* A document line, a symbol and a message are strings; len() and          *)
(* str.format are Len and \o on them.                                      *)
(***************************************************************************)
EXTENDS Integers, Sequences, FiniteSets, TLC

VARIABLES
    platform,     \* sys.platform of the process
    last_diags,   \* PylintLinter.last_diags: a function whose DOMAIN is the set of keys
    call,         \* arguments of the most recent lint call, and what pylint did in it
    result,       \* outcome of the most recent lint call: a returned list or a raised exception
    pylint_args,  \* argument lists pylint.lint.Run was given during the most recent call
    before,       \* what last_diags held for the call's path when the most recent call began
    ncalls,       \* number of lint calls made so far
    completed,    \* per path, the list returned by the latest saved lint that reached a return
    unsaved_seen  \* paths for which an unsaved lint has been called

vars == <<platform, last_diags, call, result, pylint_args, before, ncalls, completed, unsaved_seen>>

-----------------------------------------------------------------------------
(* Bounds of the model *)

\* Number of lint calls in one behaviour.
MaxCalls == 3

\* Longest pylint report in the exhaustive check of the translation loop.
MaxFindings == 2

-----------------------------------------------------------------------------
(* Inputs *)

Platforms == { <<"w","i","n","3","2">>, <<"d","a","r","w","i","n">> }

Paths == { <<"a","\\","b">>, <<"a","/","b">> }

LineLists == { <<>>, <<"ab","c">> }

Documents == [path : Paths, lines : LineLists]

\* Objects of pylint's JSON report (the keys lint reads).
Convention ==
    [line |-> 1, column |-> 0, type |-> "convention",
     symbol |-> "missing-docstring", message |-> "Missing function docstring"]

Info ==
    [line |-> 2, column |-> 2, type |-> "info",
     symbol |-> "locally-disabled", message |-> "Locally disabling"]

Warning ==
    [line |-> 3, column |-> 1, type |-> "warning",
     symbol |-> "unused-import", message |-> "Unused import os"]

\* Reports pylint writes in the behaviours of Spec: the JSON list [], one
\* finding of each kind, and an "info" finding after each of the others.
Reports ==
    { <<>>, <<Convention>>, <<Info>>, <<Warning>>,
      <<Convention, Info>>, <<Warning, Info>> }

\* What pylint.lint.Run does in one invocation: it raises, it leaves the
\* stream empty, it writes text that is not JSON, or it writes a JSON list.
Runs ==
    { [kind |-> "raise", findings |-> <<>>],
      [kind |-> "empty", findings |-> <<>>],
      [kind |-> "malformed", findings |-> <<>>] }
    \cup { [kind |-> "json", findings |-> fs] : fs \in Reports }

\* The findings of the exhaustive check of the translation loop: every type
\* pylint documents and one it does not, on every line from 0 to one past a
\* two-line document.
Types == { "convention", "error", "fatal", "refactor", "warning", "info" }

AllFindings ==
    { [line |-> l, column |-> c, type |-> t, symbol |-> t \o "-symbol", message |-> "text"] :
        l \in 0..3, c \in {0, 4}, t \in Types }

RECURSIVE SeqsUpTo(_, _)
SeqsUpTo(S, n) ==
    IF n = 0 THEN { <<>> }
    ELSE LET shorter == SeqsUpTo(S, n - 1)
         IN  shorter \cup { Append(s, x) : s \in { t \in shorter : Len(t) = n - 1 }, x \in S }

AllReports == SeqsUpTo(AllFindings, MaxFindings)

NoRun == [kind |-> "none", findings |-> <<>>]

-----------------------------------------------------------------------------
(* Helpers of lint *)

StartsWith(s, prefix) ==
    /\ Len(s) >= Len(prefix)
    /\ \A i \in 1..Len(prefix) : s[i] = prefix[i]

Replace(s, old, new) == [i \in 1..Len(s) |-> IF s[i] = old THEN new ELSE s[i]]

IsWin == StartsWith(platform, <<"w","i","n">>)

\* Mutant of NormPath: the replacement is made on every platform.
NormPath_EveryPlatform(path) == Replace(path, "\\", "/")

NormPath(path) == IF IsWin THEN Replace(path, "\\", "/") ELSE path

Returned(value) == [raised |-> "None", value |-> value]

Raised(exc) == [raised |-> exc, value |-> <<>>]

\* Mutant of DefaultGet: an unsaved lint returns an empty list.
DefaultGet_Empty(d, path) == <<>>

\* Mutant of DefaultGetStore: a read of a missing key inserts nothing (dict.get).
DefaultGetStore_NoInsert(d, path) == d

\* Mutant of SetItem: the assignment rebinds the cache to a one-entry dict.
SetItem_Rebind(d, path, value) == [p \in {path} |-> value]

\* last_diags[path] of a collections.defaultdict(list): a missing key is
\* inserted with list() and that value is returned.
DefaultGet(d, path) == IF path \in DOMAIN d THEN d[path] ELSE <<>>

DefaultGetStore(d, path) ==
    IF path \in DOMAIN d THEN d
    ELSE [p \in DOMAIN d \cup {path} |-> IF p = path THEN <<>> ELSE d[p]]

SetItem(d, path, value) ==
    [p \in DOMAIN d \cup {path} |-> IF p = path THEN value ELSE d[p]]

\* len(document.lines[line]) if document.lines else 0, with Python's list
\* indexing: -len..-1 count from the end, anything else raises IndexError.
\* -1 stands for the IndexError.
EndCol(lines, line) ==
    IF Len(lines) = 0 THEN 0
    ELSE IF line >= 0 /\ line < Len(lines) THEN Len(lines[line + 1])
    ELSE IF line < 0 /\ line >= -Len(lines) THEN Len(lines[Len(lines) + line + 1])
    ELSE -1

\* The if/elif chain over diag['type']: no branch is taken for any other
\* type, and the local variable severity keeps what it held.
Severity(type, severity) ==
    CASE type = "convention" -> "Information"
      [] type = "error"      -> "Error"
      [] type = "fatal"      -> "Error"
      [] type = "refactor"   -> "Hint"
      [] type = "warning"    -> "Warning"
      [] OTHER               -> severity

Message(diag) == "[" \o diag.symbol \o "] " \o diag.message

Diagnostic(diag, line, end_col, severity) ==
    [source   |-> "pylint",
     range    |-> [start |-> [line |-> line, character |-> diag.column],
                   end   |-> [line |-> line, character |-> end_col]],
     message  |-> Message(diag),
     severity |-> severity]

\* The for loop over json.load(bytesStream), from finding i on, with the
\* local variable severity ("Unbound" before its first assignment) and the
\* list diagnostics built so far.
RECURSIVE Translate(_, _, _, _, _)
Translate(lines, findings, i, severity, diagnostics) ==
    IF i > Len(findings) THEN Returned(diagnostics)
    ELSE LET diag    == findings[i]
             line    == diag.line - 1
             end_col == EndCol(lines, line)
             sev     == Severity(diag.type, severity)
         IN  IF end_col = -1 THEN Raised("IndexError")
             ELSE IF sev = "Unbound" THEN Raised("UnboundLocalError")
             ELSE Translate(lines, findings, i + 1, sev,
                            Append(diagnostics, Diagnostic(diag, line, end_col, sev)))

\* The outcome of a saved lint, given what pylint did.  "RunError" is
\* whatever exception pylint.lint.Run lets escape, "ValueError" the
\* JSONDecodeError of json.load.  astroid's cache, cleared before the run,
\* is pylint's own state and is not read by lint.
SavedOutcome(document, run) ==
    CASE run.kind = "raise"     -> Raised("RunError")
      [] run.kind = "empty"     -> Returned(<<>>)
      [] run.kind = "malformed" -> Raised("ValueError")
      [] OTHER                  -> Translate(document.lines, run.findings, 1, "Unbound", <<>>)

\* Mutant of SavedStore: the early return of an empty stream skips the store.
SavedStore_SkipEmpty(d, path, outcome) ==
    IF outcome.raised = "None" /\ outcome.value # <<>>
    THEN SetItem(d, path, outcome.value) ELSE d

\* Mutant of SavedStore: a failing call resets the entry of its path.
SavedStore_OnFailure(d, path, outcome) == SetItem(d, path, outcome.value)

\* The cache after a saved lint: written only on the two return paths.
SavedStore(d, path, outcome) ==
    IF outcome.raised = "None" THEN SetItem(d, path, outcome.value) ELSE d

-----------------------------------------------------------------------------
(* The state machine *)

Init ==
    /\ platform \in Platforms
    /\ last_diags = <<>>
    /\ call = [path |-> <<>>, lines |-> <<>>, is_saved |-> FALSE, run |-> NoRun]
    /\ result = Returned(<<>>)
    /\ pylint_args = <<>>
    /\ before = <<>>
    /\ ncalls = 0
    /\ completed = <<>>
    /\ unsaved_seen = {}

\* lint(document, is_saved): the whole call, in which pylint behaves as run.
lint(document, is_saved, run) ==
    /\ ncalls < MaxCalls
    /\ ncalls' = ncalls + 1
    /\ call' = [path |-> document.path, lines |-> document.lines,
                is_saved |-> is_saved, run |-> run]
    /\ before' = (IF document.path \in DOMAIN last_diags
                  THEN last_diags[document.path] ELSE <<>>)
    /\ UNCHANGED platform
    /\ IF ~is_saved
       THEN /\ result' = Returned(DefaultGet(last_diags, document.path))
            /\ last_diags' = DefaultGetStore(last_diags, document.path)
            /\ pylint_args' = <<>>
            /\ unsaved_seen' = unsaved_seen \cup {document.path}
            /\ UNCHANGED completed
       ELSE LET outcome == SavedOutcome(document, run)
            IN  /\ result' = outcome
                /\ last_diags' = SavedStore(last_diags, document.path, outcome)
                /\ pylint_args' = << <<NormPath(document.path)>> >>
                /\ completed' = IF outcome.raised = "None"
                                THEN [p \in DOMAIN completed \cup {document.path} |->
                                        IF p = document.path THEN outcome.value
                                        ELSE completed[p]]
                                ELSE completed
                /\ UNCHANGED unsaved_seen

\* pyls_lint(document, is_saved) with is_saved false.
LintUnsaved == \E document \in Documents : lint(document, FALSE, NoRun)

\* pyls_lint(document, is_saved) with is_saved true.
LintSaved == \E document \in Documents, run \in Runs : lint(document, TRUE, run)

Next == LintUnsaved \/ LintSaved

Spec == Init /\ [][Next]_vars

\* One saved lint of a fresh process, over every report of AllReports.
LintReport ==
    /\ ncalls = 0
    /\ \E document \in Documents, fs \in AllReports :
           lint(document, TRUE, [kind |-> "json", findings |-> fs])

SpecTranslate == Init /\ [][LintReport]_vars

-----------------------------------------------------------------------------
(* Properties *)

Called == ncalls > 0

UnsavedCall == Called /\ ~call.is_saved

SavedCall == Called /\ call.is_saved

\* The step is a lint call.
Step == ncalls' = ncalls + 1

LastCompleted(path) == IF path \in DOMAIN completed THEN completed[path] ELSE <<>>

\* C1: an unsaved lint returns exactly the sequence cached for its path when
\* it was called, which is the list returned by the latest saved lint of
\* that path that completed, or the empty sequence if there is none, and it
\* does not invoke pylint.
C1_UnsavedReturnsCached ==
    UnsavedCall =>
        /\ result.raised = "None"
        /\ result.value = before
        /\ result.value = LastCompleted(call.path)
        /\ pylint_args = <<>>

\* An unsaved lint has returned a non-empty list of stale diagnostics.
C1_Witness == UnsavedCall /\ result.value # <<>>

\* C2: every finding of a saved lint's report yields a Diagnostic whose range
\* starts at (line - 1, column) and ends on the same line at the length of
\* that document line, or at 0 for a document without lines, whatever line
\* the finding names (a line the document does not have included).
C2_RangeOfEveryFinding ==
    (SavedCall /\ call.run.kind = "json") =>
        /\ result.raised # "IndexError"
        /\ result.raised = "None" =>
              /\ Len(result.value) = Len(call.run.findings)
              /\ \A i \in 1..Len(result.value) :
                    LET f == call.run.findings[i]
                        r == result.value[i].range
                    IN  /\ r.start.line = f.line - 1
                        /\ r.start.character = f.column
                        /\ r.end.line = r.start.line
                        /\ call.lines = <<>> => r.end.character = 0
                        /\ (call.lines # <<>> /\ f.line \in 1..Len(call.lines)) =>
                              r.end.character = Len(call.lines[f.line])

\* The severity the claim gives each of the five documented types.
SeverityOfType(type) ==
    CASE type = "convention" -> "Information"
      [] type = "error"      -> "Error"
      [] type = "fatal"      -> "Error"
      [] type = "refactor"   -> "Hint"
      [] type = "warning"    -> "Warning"

Documented == { "convention", "error", "fatal", "refactor", "warning" }

\* C3: the severity of a Diagnostic is a function of the type of its own
\* finding: the five documented types map as the table says, and two
\* findings of one type, in one report or in the reports of two successive
\* saved lints, get one severity, whatever precedes them.
C3_SeverityByOwnType ==
    [][ (Step /\ call'.is_saved /\ result'.raised = "None") =>
          /\ \A j \in 1..Len(result'.value) :
                call'.run.findings[j].type \in Documented =>
                    result'.value[j].severity = SeverityOfType(call'.run.findings[j].type)
          /\ \A j, k \in 1..Len(result'.value) :
                call'.run.findings[j].type = call'.run.findings[k].type =>
                    result'.value[j].severity = result'.value[k].severity
          /\ (SavedCall /\ result.raised = "None") =>
                \A i \in 1..Len(result.value), j \in 1..Len(result'.value) :
                    call.run.findings[i].type = call'.run.findings[j].type =>
                        result.value[i].severity = result'.value[j].severity
      ]_vars

\* C4: a saved lint whose stream stays empty returns the empty sequence and
\* leaves the empty sequence cached under its path, whatever was cached
\* there, and an unsaved lint of that path that follows returns it.
C4_EmptyStreamClearsEntry ==
    /\ [] ( (SavedCall /\ call.run.kind = "empty") =>
              /\ result = Returned(<<>>)
              /\ call.path \in DOMAIN last_diags
              /\ last_diags[call.path] = <<>> )
    /\ [][ (SavedCall /\ call.run.kind = "empty" /\ Step
            /\ ~call'.is_saved /\ call'.path = call.path) =>
              result' = Returned(<<>>) ]_vars

\* A saved lint with an empty stream has replaced a non-empty cached list.
C4_Witness == SavedCall /\ call.run.kind = "empty" /\ before # <<>> /\ last_diags[call.path] = <<>>

\* C5: two successive saved lints of one document with the same lines and
\* the same pylint output both return, return equal sequences, and leave
\* exactly that sequence cached under the path.
C5_TwiceSameResult ==
    [][ (SavedCall /\ Step /\ call' = call /\ call.run.kind \in {"empty", "json"}) =>
          /\ result.raised = "None"
          /\ result'.raised = "None"
          /\ result'.value = result.value
          /\ call.path \in DOMAIN last_diags'
          /\ last_diags'[call.path] = result'.value ]_vars

\* C6: a saved lint gives pylint the path with every backslash turned into
\* a slash on win32 and the path itself elsewhere, and what it returns is
\* cached under document.path; no key other than a document.path appears.
C6_NormalizedArgOriginalKey ==
    SavedCall =>
        /\ pylint_args =
              << << [i \in 1..Len(call.path) |->
                       IF platform = <<"w","i","n","3","2">> /\ call.path[i] = "\\"
                       THEN "/" ELSE call.path[i]] >> >>
        /\ result.raised = "None" =>
              /\ call.path \in DOMAIN last_diags
              /\ last_diags[call.path] = result.value
        /\ DOMAIN last_diags \subseteq DOMAIN completed \cup unsaved_seen

\* On win32 a saved lint of a\b has cached its diagnostics under a\b, pylint
\* was given a/b, and nothing is cached under a/b.
C6_Witness ==
    /\ SavedCall
    /\ platform = <<"w","i","n","3","2">>
    /\ call.path = <<"a","\\","b">>
    /\ pylint_args = << << <<"a","/","b">> >> >>
    /\ result.raised = "None" /\ result.value # <<>>
    /\ last_diags[call.path] = result.value
    /\ <<"a","/","b">> \notin DOMAIN last_diags

\* C7: a saved lint that raises invokes pylint once, returns nothing and
\* leaves the whole cache as it was: the cache always holds, for each path,
\* the list returned by the latest saved lint that completed, and that list
\* is what an unsaved lint following the failure returns.
C7_FailureLeavesCache ==
    /\ [] ( \A p \in DOMAIN completed :
              p \in DOMAIN last_diags /\ last_diags[p] = completed[p] )
    /\ [][ (Step /\ call'.is_saved /\ result'.raised # "None") =>
              /\ last_diags' = last_diags
              /\ result'.value = <<>>
              /\ Len(pylint_args') = 1 ]_vars
    /\ [][ (SavedCall /\ result.raised # "None" /\ Step
            /\ ~call'.is_saved /\ call'.path = call.path) =>
              result' = Returned(LastCompleted(call.path)) ]_vars

\* A saved lint has raised while translating a finding, with a non-empty
\* list cached under its path.
C7_Witness ==
    /\ SavedCall
    /\ result.raised \in {"IndexError", "UnboundLocalError"}
    /\ call.path \in DOMAIN completed
    /\ last_diags[call.path] # <<>>

\* C8, as claimed: the cache holds an entry for a path only if a saved lint
\* of that path has completed.
C8_EntryOnlyAfterSavedLint == DOMAIN last_diags \subseteq DOMAIN completed

\* C8, amended: the cache starts empty and holds an entry for exactly the
\* paths of which a saved lint has completed or an unsaved lint was called;
\* an entry of a path no saved lint of which has completed is empty.
C8_EntryAfterAnyLint ==
    /\ ncalls = 0 => DOMAIN last_diags = {}
    /\ DOMAIN last_diags = DOMAIN completed \cup unsaved_seen
    /\ \A p \in DOMAIN last_diags \ DOMAIN completed : last_diags[p] = <<>>

\* An unsaved lint of a never-linted path has left an entry for that path.
C8_Witness ==
    /\ UnsavedCall
    /\ call.path \notin DOMAIN completed
    /\ call.path \in DOMAIN last_diags
    /\ last_diags[call.path] = <<>>

\* C9: a saved lint whose report is a list of n >= 1 findings returns n
\* Diagnostics, the i-th with source "pylint" and message "[symbol] message"
\* of the i-th finding, and leaves that sequence cached under the path.
C9_OneDiagnosticPerFinding ==
    (SavedCall /\ call.run.kind = "json" /\ Len(call.run.findings) >= 1) =>
        /\ result.raised = "None"
        /\ Len(result.value) = Len(call.run.findings)
        /\ \A i \in 1..Len(result.value) :
              /\ result.value[i].source = "pylint"
              /\ result.value[i].message =
                    "[" \o call.run.findings[i].symbol \o "] " \o call.run.findings[i].message
        /\ call.path \in DOMAIN last_diags
        /\ last_diags[call.path] = result.value

\* C10: a lint call keeps every entry, changes no entry of another path and
\* adds no key but its own path.
C10_OtherEntriesKept ==
    [][ Step =>
          /\ \A p \in DOMAIN last_diags :
                /\ p \in DOMAIN last_diags'
                /\ p # call'.path => last_diags'[p] = last_diags[p]
          /\ DOMAIN last_diags' \subseteq DOMAIN last_diags \cup {call'.path} ]_vars

\* A saved lint has cached a non-empty list while another path holds one.
C10_Witness ==
    /\ SavedCall /\ result.raised = "None" /\ result.value # <<>>
    /\ \E p \in DOMAIN last_diags : p # call.path /\ last_diags[p] # <<>>

====
